---- MODULE Spec2Model ----
(***************************************************************************)
(* Model of the web chatbot in src/app.py: the per-session state kept by   *)
(* the /api/chat and /api/clear handlers, the canned-reply rules of        *)
(* generate_response and the text transform format_response.               *)
(*                                                                         *)
(* Texts are TLA+ strings, read character by character with SubSeq.  The   *)
(* module source is ASCII, so two characters of the program are written    *)
(* with stand-ins: the bullet U+2022 is Bullet and the warning sign        *)
(* U+26A0 U+FE0F is WarnSign.                                              *)
(***************************************************************************)
EXTENDS Integers, Sequences, FiniteSets, TLC

(***************************************************************************)
(* Python str primitives                                                   *)
(***************************************************************************)
Bullet == "#"
WarnSign == "(!)"

Char(s, i) == SubSeq(s, i, i)

\* str.isspace (str.strip, str.split): the white space of ASCII, which is
\* space, \t, \n, \r, \f, \x0b and the separators \x1c-\x1f, the last five
\* written as the characters themselves.  The white space outside ASCII
\* (\x85, \xa0, U+2028 and the like) cannot be held by a string of this module.
IsSpace(c) ==
  c \in {" ", "\t", "\n", "\r", "\f", "", "", "", "", ""}

\* \d
IsDigit(c) == c \in {"0", "1", "2", "3", "4", "5", "6", "7", "8", "9"}

UpperToLower ==
  [c \in {"A","B","C","D","E","F","G","H","I","J","K","L","M","N","O","P","Q",
          "R","S","T","U","V","W","X","Y","Z"} |->
     CASE c = "A" -> "a" [] c = "B" -> "b" [] c = "C" -> "c" [] c = "D" -> "d"
       [] c = "E" -> "e" [] c = "F" -> "f" [] c = "G" -> "g" [] c = "H" -> "h"
       [] c = "I" -> "i" [] c = "J" -> "j" [] c = "K" -> "k" [] c = "L" -> "l"
       [] c = "M" -> "m" [] c = "N" -> "n" [] c = "O" -> "o" [] c = "P" -> "p"
       [] c = "Q" -> "q" [] c = "R" -> "r" [] c = "S" -> "s" [] c = "T" -> "t"
       [] c = "U" -> "u" [] c = "V" -> "v" [] c = "W" -> "w" [] c = "X" -> "x"
       [] c = "Y" -> "y" [] c = "Z" -> "z"]

LowerChar(c) == IF c \in DOMAIN UpperToLower THEN UpperToLower[c] ELSE c

\* str.lower
RECURSIVE Lower(_)
Lower(s) == IF s = "" THEN "" ELSE LowerChar(Head(s)) \o Lower(Tail(s))

\* str.lstrip / str.rstrip / str.strip
RECURSIVE LStrip(_)
LStrip(s) == IF s # "" /\ IsSpace(Head(s)) THEN LStrip(Tail(s)) ELSE s

RECURSIVE RStrip(_)
RStrip(s) ==
  IF s # "" /\ IsSpace(Char(s, Len(s))) THEN RStrip(SubSeq(s, 1, Len(s) - 1)) ELSE s

Strip(s) == RStrip(LStrip(s))

\* sub in s
Contains(s, sub) ==
  \E i \in 1..(Len(s) - Len(sub) + 1) : SubSeq(s, i, i + Len(sub) - 1) = sub

\* s.startswith(p)
StartsWith(s, p) == Len(p) <= Len(s) /\ SubSeq(s, 1, Len(p)) = p

\* s[i..] starts with p
At(s, i, p) == i >= 1 /\ i + Len(p) - 1 <= Len(s) /\ SubSeq(s, i, i + Len(p) - 1) = p

\* any(keyword in s for keyword in keywords)
AnyIn(keywords, s) == \E k \in keywords : Contains(s, k)

\* len(s.split()): the number of maximal runs of non-space characters
WordCount(s) ==
  Cardinality({i \in 1..Len(s) :
                 /\ ~IsSpace(Char(s, i))
                 /\ (i = 1 \/ IsSpace(Char(s, i - 1)))})

\* sep.join(parts)
RECURSIVE Join(_, _)
Join(sep, parts) ==
  IF parts = <<>> THEN ""
  ELSE IF Len(parts) = 1 THEN parts[1]
  ELSE parts[1] \o sep \o Join(sep, Tail(parts))

\* s.split(sep) for a one-character separator
RECURSIVE SplitAt(_, _, _)
SplitAt(s, sep, cur) ==
  IF s = "" THEN <<cur>>
  ELSE IF Head(s) = sep THEN <<cur>> \o SplitAt(Tail(s), sep, "")
  ELSE SplitAt(Tail(s), sep, cur \o Head(s))

Split(s, sep) == SplitAt(s, sep, "")

\* the first index >= i whose character satisfies no run condition: the end of
\* the maximal run of characters in (or, with inSet FALSE, not in) chars
RECURSIVE RunEnd(_, _, _, _)
RunEnd(s, i, chars, inSet) ==
  IF i <= Len(s) /\ ((Char(s, i) \in chars) = inSet)
  THEN RunEnd(s, i + 1, chars, inSet)
  ELSE i

\* \s of re on a str pattern: the white space of str.isspace, restricted to
\* ASCII like IsSpace
SpaceChars ==
  {" ", "\t", "\n", "\r", "\f", "", "", "", "", ""}
DigitChars == {"0", "1", "2", "3", "4", "5", "6", "7", "8", "9"}

(***************************************************************************)
(* format_response (src/app.py:315-349)                                    *)
(***************************************************************************)
\* One match of \*\*([^*]+)\*\* starting at i: the index of its last
\* character, or 0 when the pattern does not match there.
BoldEnd(s, i) ==
  IF At(s, i, "**")
  THEN LET j == RunEnd(s, i + 2, {"*"}, FALSE)
       IN  IF j > i + 2 /\ At(s, j, "**") THEN j + 1 ELSE 0
  ELSE 0

\* re.sub(r'\*\*([^*]+)\*\*', r'<b>\1</b>', text), scanning from index i
RECURSIVE BoldFrom(_, _)
BoldFrom(s, i) ==
  IF i > Len(s) THEN ""
  ELSE LET e == BoldEnd(s, i)
       IN  IF e > 0
           THEN "<b>" \o SubSeq(s, i + 2, e - 2) \o "</b>" \o BoldFrom(s, e + 1)
           ELSE Char(s, i) \o BoldFrom(s, i + 1)

SubBold(s) == BoldFrom(s, 1)

\* The greedy repetition (<br>\s*)* from p: <<iterations, index after them>>
RECURSIVE BrIter(_, _, _)
BrIter(s, p, k) ==
  IF At(s, p, "<br>")
  THEN BrIter(s, RunEnd(s, p + 4, SpaceChars, TRUE), k + 1)
  ELSE <<k, p>>

\* re.sub(r'(<br>\s*){3,}', '<br><br>', text), scanning from index i
RECURSIVE CollapseFrom(_, _)
CollapseFrom(s, i) ==
  IF i > Len(s) THEN ""
  ELSE LET r == BrIter(s, i, 0)
       IN  IF r[1] >= 3
           THEN "<br><br>" \o CollapseFrom(s, r[2])
           ELSE Char(s, i) \o CollapseFrom(s, i + 1)

CollapseBr(s) == CollapseFrom(s, 1)

\* ['* ' + line.strip() for line in lines if line.strip()], * the bullet
RECURSIVE BulletLines(_)
BulletLines(lines) ==
  IF lines = <<>> THEN <<>>
  ELSE LET line == Strip(Head(lines))
       IN  (IF line # "" THEN <<Bullet \o " " \o line>> ELSE <<>>)
             \o BulletLines(Tail(lines))

\* The bullet branch: split at the bullets and rejoin with line breaks
BreakBullets(text) ==
  LET lines   == Split(text, Bullet)
      intro   == Strip(lines[1])
      bullets == BulletLines(Tail(lines))
  IN  IF bullets # <<>>
      THEN intro \o "<br><br>" \o Join("<br>", bullets)
      ELSE text

\* One match of (\d+)\.\s+ open ([^stop]+) close starting at i:
\* <<index of its last character, the group 2 text>>, or <<0, "">>.
NumItem(s, i, open, stop, close) ==
  IF i <= Len(s) /\ IsDigit(Char(s, i))
  THEN LET d == RunEnd(s, i, DigitChars, TRUE)
           w == RunEnd(s, d + 1, SpaceChars, TRUE)
           b == w + Len(open)
           j == RunEnd(s, b, {stop}, FALSE)
       IN  IF /\ At(s, d, ".")
              /\ w > d + 1
              /\ At(s, w, open)
              /\ j > b
              /\ At(s, j, close)
           THEN <<j + Len(close) - 1, SubSeq(s, b, j - 1)>>
           ELSE <<0, "">>
  ELSE <<0, "">>

\* re.sub of a numbered item by a bold bullet, scanning from index i
RECURSIVE NumFrom(_, _, _, _, _)
NumFrom(s, i, open, stop, close) ==
  IF i > Len(s) THEN ""
  ELSE LET m == NumItem(s, i, open, stop, close)
       IN  IF m[1] > 0
           THEN Bullet \o " <b>" \o m[2] \o "</b>"
                  \o NumFrom(s, m[1] + 1, open, stop, close)
           ELSE Char(s, i) \o NumFrom(s, i + 1, open, stop, close)

\* re.sub(r'(\d+)\.\s+\*\*([^*]+)\*\*', ...) then
\* re.sub(r'(\d+)\.\s+<b>([^<]+)</b>', ...)
NumberedToBullets(s) ==
  NumFrom(NumFrom(s, 1, "**", "*", "**"), 1, "<b>", "<", "</b>")

format_response(text) ==
  LET t1 == SubBold(text)
  IN  IF Contains(t1, "<br>")
      THEN CollapseBr(t1)
      ELSE NumberedToBullets(IF Contains(t1, Bullet) THEN BreakBullets(t1) ELSE t1)

(***************************************************************************)
(* Fixed texts and word lists of src/app.py                                *)
(***************************************************************************)
NoTone == "None"
ToneLabels == {"Professional", "Casual"}

MessageLimit == 10

\* generate_response's greeting_words (line 111)
GenGreetingWords ==
  {"hi", "hello", "hey", "hii", "hiii", "sup", "yo", "helo", "hola"}

\* chat's greeting_words (line 425)
ChatGreetingWords ==
  {"hi", "hello", "hey", "hii", "hiii", "sup", "yo", "howdy"}

\* the user texts chat skips when it looks for the user's problem (line 413)
SkippedUserTexts ==
  {"hi", "hello", "hey", "hii", "hiii", "sup", "yo", "professional", "casual",
   "before i help you with this, how would you like me to respond?"}

ViolenceKeywords ==
  {"hit", "punch", "slap", "kick", "physical violence", "physically hurt",
   "assault", "attack", "threatened with violence"}

WorkloadContext ==
  {"workload", "work load", "tasks", "deadline", "pressure", "stress", "overwhelm"}

PhysicalIndicators == {"physically", "hit me", "hurt me", "threatened", "violence"}

HarmfulKeywords ==
  {"kill", "murder", "suicide", "weapon", "gun", "knife", "blood", "stab",
   "threat", "harass"}

HealthKeywords ==
  {"headache", "sick", "pain", "fever", "medication", "doctor", "hospital"}

GreetingText == "Hello! How can I help you today?"

\* lines 130-138 and 142-150 (the em dash is written --)
ViolenceText ==
  WarnSign \o " **This is serious.** Physical violence at work is illegal and unacceptable.\n\n"
  \o "Please take action immediately:\n"
  \o Bullet \o " Document everything (dates, witnesses, injuries)\n"
  \o Bullet \o " Report to HR or higher management NOW\n"
  \o Bullet \o " Contact workplace violence hotline: 1-800-799-7233\n"
  \o Bullet \o " If you're in immediate danger, call 911\n\n"
  \o "This isn't a communication issue -- it's workplace abuse. I can't coach you through this, but I strongly urge you to protect yourself and report this."

\* lines 155-161
CrisisText ==
  WarnSign \o " I'm concerned about what you've shared. If you're in immediate danger or witnessing illegal activity, please contact:\n\n"
  \o Bullet \o " Emergency Services: 911\n"
  \o Bullet \o " National Suicide Prevention Lifeline: 988\n"
  \o Bullet \o " Workplace Violence Hotline: 1-800-799-7233\n\n"
  \o "I'm designed to help with workplace communication challenges, not crisis or safety situations. Please reach out to professionals who can provide proper support."

\* line 166
HealthText ==
  "I'm specifically designed for workplace communication challenges. For health concerns, please consult a medical professional. Can we focus on a work-related communication or teamwork challenge instead?"

\* line 313
ApologyText ==
  "Sorry, I'm having trouble generating a response right now. Please try again."

\* line 386 (the rocket emoji is written (rocket))
LimitText ==
  "You've reached the free message limit (10 messages). Upgrade to Premium for unlimited conversations! (rocket)"

\* line 434
ToneQuestion == "Before I help you with this, how would you like me to respond?"

\* line 455
ClarifyQuestion == "Could you tell me a bit more about what's going on?"

NoContextText == "No context available."
NoRelevantContextText == "No relevant context found."

(***************************************************************************)
(* get_relevant_context (src/app.py:71-105)                                *)
(*                                                                         *)
(* The collaborators' answer is an input: either call raises (ok FALSE),   *)
(* or the search returns a list of payloads.                               *)
(***************************************************************************)
\* payload.get('text', '') or payload.get('page_content', '')
PayloadText(p) == IF p.text # "" THEN p.text ELSE p.page_content

RECURSIVE ContextParts(_)
ContextParts(results) ==
  IF results = <<>> THEN <<>>
  ELSE (IF PayloadText(Head(results)) # "" THEN <<PayloadText(Head(results))>> ELSE <<>>)
         \o ContextParts(Tail(results))

\* get_relevant_context answering a failed call like an empty search
get_relevant_contextNoSentinel(qdrant, retrieval) ==
  IF qdrant /\ retrieval.ok /\ ContextParts(retrieval.results) # <<>>
  THEN Join("\n\n", ContextParts(retrieval.results))
  ELSE NoRelevantContextText

get_relevant_context(qdrant, retrieval) ==
  IF ~qdrant THEN NoContextText
  ELSE IF ~retrieval.ok THEN NoContextText
  ELSE IF ContextParts(retrieval.results) # <<>>
       THEN Join("\n\n", ContextParts(retrieval.results))
       ELSE NoRelevantContextText

(***************************************************************************)
(* generate_response (src/app.py:107-313)                                  *)
(***************************************************************************)
\* lines 111-112: the greeting rule
GenIsGreeting(user_message, chat_length) ==
  Strip(Lower(user_message)) \in GenGreetingWords /\ chat_length <= 1

\* lines 122-150: the two rules that return the violence text
ViolenceRule(user_message) ==
  LET lower == Lower(user_message)
      has_violence_keyword == AnyIn(ViolenceKeywords, lower)
      has_workload_context == AnyIn(WorkloadContext, lower)
  IN  \/ /\ Contains(lower, "beat")
         /\ ~has_workload_context
         /\ AnyIn(PhysicalIndicators, lower)
      \/ has_violence_keyword /\ ~has_workload_context

\* lines 153-154
HarmRule(user_message) == AnyIn(HarmfulKeywords, Lower(user_message))

\* lines 164-165
HealthRule(user_message) == AnyIn(HealthKeywords, Lower(user_message))

\* SafetyReply making the harm check before the violence check
SafetyReplyHarmFirst(user_message) ==
  IF HarmRule(user_message) THEN CrisisText
  ELSE IF ViolenceRule(user_message) THEN ViolenceText
  ELSE IF HealthRule(user_message) THEN HealthText
  ELSE ""

\* lines 116-166: the safety checks, in the order the code makes them; "" when
\* none applies
SafetyReply(user_message) ==
  IF ViolenceRule(user_message) THEN ViolenceText
  ELSE IF HarmRule(user_message) THEN CrisisText
  ELSE IF HealthRule(user_message) THEN HealthText
  ELSE ""

\* CannedReply without the safety checks
CannedReplyGreetingOnly(user_message, chat_length) ==
  IF GenIsGreeting(user_message, chat_length) THEN GreetingText ELSE ""

\* lines 110-166: the fixed reply generate_response returns before it builds
\* a prompt, or "" when no rule applies
CannedReply(user_message, chat_length) ==
  IF GenIsGreeting(user_message, chat_length) THEN GreetingText
  ELSE SafetyReply(user_message)

\* The tests of the chat handler that read only the message
\* line 400
IsToneLabel(user_message) == Strip(user_message) \in ToneLabels

\* line 426
ChatIsGreeting(user_message) == Strip(Lower(user_message)) \in ChatGreetingWords

\* IsMeaningfulQuery with the word threshold off by one, upwards
IsMeaningfulQueryStrict(user_message) == WordCount(user_message) > 3

\* IsMeaningfulQuery with the word threshold off by one, downwards
IsMeaningfulQueryLoose(user_message) == WordCount(user_message) >= 2

\* lines 429-430
IsMeaningfulQuery(user_message) == WordCount(user_message) >= 3

\* line 413: a stored user text that is no statement of the user's problem
IsSkipped(msg) == Lower(msg) \in SkippedUserTexts

(***************************************************************************)
(* Inputs                                                                  *)
(***************************************************************************)
\* The turns taken while the transcript holds fewer than MaxFree exchanges,
\* and those at the message limit, draw any request and any collaborator
\* answer; the turns in between send Filler and get the default answers.
MaxFree == 3

\* At most this many requests of the browser are unanswered at a time
MaxInFlight == 2

\* A chat request or a page request is sent while another request is
\* unanswered only when the sessions the two bring hold fewer than this many
\* exchanges, and a clear request only when they hold at most this many
MaxOverlap == 1

Filler == [json |-> TRUE, message |-> "ok"]

\* A body that is no JSON object: request.get_json() raises or returns None
Malformed == [json |-> FALSE, message |-> ""]

Messages ==
  {"ok", " Hi ", "howdy", "Casual", "Professional", "casual", " \f",
   "he hit me", "kill him", "my manager ignores me"}

Requests == {Malformed} \cup {[json |-> TRUE, message |-> m] : m \in Messages}

DefaultRetrieval ==
  [ok |-> TRUE,
   results |-> <<[text |-> "Scenario A", page_content |-> ""],
                 [text |-> "", page_content |-> ""],
                 [text |-> "", page_content |-> "Scenario B"]>>]

Retrievals == {DefaultRetrieval, [ok |-> TRUE, results |-> <<>>], [ok |-> FALSE, results |-> <<>>]}

DefaultCompletion == [ok |-> TRUE, text |-> " Try this: 1. **Listen** 2. **Ask** "]

Completions == {DefaultCompletion, [ok |-> FALSE, text |-> ""]}

(***************************************************************************)
(* The rules above, evaluated once over the texts the model draws.  Every  *)
(* user text of a run is the trimmed form of a drawn message.              *)
(***************************************************************************)
UserTexts == {Strip(m) : m \in Messages}

StripOf == [m \in Messages \cup UserTexts |-> Strip(m)]
IsToneLabelOf == [m \in UserTexts |-> IsToneLabel(m)]
ChatIsGreetingOf == [m \in UserTexts |-> ChatIsGreeting(m)]
IsMeaningfulQueryOf == [m \in UserTexts |-> IsMeaningfulQuery(m)]
IsSkippedOf == [m \in UserTexts |-> IsSkipped(m)]
CannedReplyOf == [m \in UserTexts, n \in 1..(MessageLimit + 1) |-> CannedReply(m, n)]

\* lines 304-307: response.choices[0].message.content.strip(), formatted
FormattedOf == [c \in Completions |-> format_response(Strip(c.text))]

\* lines 196-292: the f-string.  Only the tone heading of the fixed rule text
\* that follows the current message is kept; the rest of it is constant.
SystemPrompt(user_message, chat_history, tone) ==
  "You are a helpful workplace coach. NEVER mention frameworks or models.\n\n"
  \o "Chat History:\n" \o chat_history \o "\n\n"
  \o "Current user message: \"" \o user_message \o "\"\n\n"
  \o (IF tone = "Casual"
      THEN "TONE: Casual (like a friendly colleague)"
      ELSE "TONE: Professional (like a trusted mentor)")

\* What generate_response returns, whether it called the chat-completion
\* collaborator, and with which messages.  completion is the collaborator's
\* answer: [ok |-> FALSE] when the call raises, else the text it returns.
generate_response(user_message, context, chat_history, tone, chat_length, completion) ==
  LET canned == CannedReplyOf[user_message, chat_length]
  IN  IF canned # ""
      THEN [reply |-> canned, llm |-> FALSE, system_prompt |-> "", llm_user |-> ""]
      ELSE [reply |-> IF completion.ok
                      THEN FormattedOf[completion]
                      ELSE ApologyText,
            llm |-> TRUE,
            system_prompt |-> SystemPrompt(user_message, chat_history, tone),
            llm_user |-> user_message]

(***************************************************************************)
(* initialize_services (src/app.py:44-69)                                  *)
(*                                                                         *)
(* outcome says which constructor raises: "ok" (none), "qdrant" (the       *)
(* first, so neither handle is assigned) or "openai" (the second, after    *)
(* the Qdrant handle was assigned).                                        *)
(***************************************************************************)
InitOutcomes == {"ok", "qdrant", "openai"}

\* initialize_services reporting success whatever the constructors did
initialize_servicesAlwaysTrue(qdrant, openai, outcome) ==
  [qdrant_client |-> IF outcome = "qdrant" THEN qdrant ELSE TRUE,
   openai_client |-> IF outcome = "ok" THEN TRUE ELSE openai,
   ok            |-> TRUE]

initialize_services(qdrant, openai, outcome) ==
  [qdrant_client |-> IF outcome = "qdrant" THEN qdrant ELSE TRUE,
   openai_client |-> IF outcome = "ok" THEN TRUE ELSE openai,
   ok            |-> outcome = "ok"]

(***************************************************************************)
(* The session and the pieces of the chat handler (src/app.py:363-521)     *)
(***************************************************************************)
\* An exchange as chat stores it; its timestamp (datetime.now()) is left out:
\* nothing reads it.
Exchange(user, ai) == [user |-> user, ai |-> ai]

\* history[-n:]
LastN(seq, n) == IF Len(seq) <= n THEN seq ELSE SubSeq(seq, Len(seq) - n + 1, Len(seq))

\* line 397
RECURSIVE HistoryLines(_)
HistoryLines(history) ==
  IF history = <<>> THEN <<>>
  ELSE <<"User: " \o Head(history).user \o "\nAI: " \o Head(history).ai>>
         \o HistoryLines(Tail(history))

HistoryText(history) == Join("\n", HistoryLines(LastN(history, 4)))

\* lines 409-414: the stored user texts that are no greeting, tone label or
\* tone question
RECURSIVE UserProblems(_)
UserProblems(history) ==
  IF history = <<>> THEN <<>>
  ELSE (IF ~IsSkippedOf[Head(history).user]
        THEN <<Head(history).user>> ELSE <<>>)
         \o UserProblems(Tail(history))

\* lines 400-419: the message the rest of the turn works on
EffectiveMessage(user_message, history) ==
  IF IsToneLabelOf[user_message] /\ UserProblems(history) # <<>>
  THEN UserProblems(history)[Len(UserProblems(history))]
  ELSE user_message

\* StoreTone writing the tone on every turn, so that a turn without a label
\* unsets it
StoreToneForgets(session_tone, user_message) ==
  IF IsToneLabelOf[user_message] THEN StripOf[user_message] ELSE NoTone

\* lines 400-404 and 500-502: the session tone after a turn that got this far
StoreTone(session_tone, user_message) ==
  IF IsToneLabelOf[user_message] THEN StripOf[user_message] ELSE session_tone

\* LimitReached counting from the exchange after the tenth
LimitReachedLate(history) == Len(history) >= MessageLimit + 1

\* LimitReached with the comparison off by one
LimitReachedOffByOne(history) == Len(history) > MessageLimit

\* line 384
LimitReached(history) == Len(history) >= MessageLimit

\* AppendExchange storing the exchange once per message of it
AppendExchangeTwice(history, user, ai) ==
  Append(Append(history, Exchange(user, ai)), Exchange(user, ai))

\* lines 437-444, 457-464, 480-487
AppendExchange(history, user, ai) == Append(history, Exchange(user, ai))

\* QuickReplies offering the tone labels on every turn
QuickRepliesAlways(asks_tone) == <<"Professional", "Casual">>

\* lines 447-451, 467-471, 497, 505-514: the quick replies a turn returns, the
\* tone labels when it asks for the tone and none on every other path
QuickReplies(asks_tone) == IF asks_tone THEN <<"Professional", "Casual">> ELSE <<>>

\* StoredUserText storing the query the turn worked on
StoredUserTextEffective(original_user_message, user_message) == user_message

\* lines 441, 461, 484: the user text of the stored exchange
StoredUserText(original_user_message, user_message) == original_user_message

\* IsEmptyMessage letting every message through
IsEmptyMessageNever(user_message) == FALSE

\* line 371: not user_message
IsEmptyMessage(user_message) == user_message = ""

\* line 493
IsSafetyWarning(ai_response) ==
  StartsWith(ai_response, WarnSign) \/ Contains(Lower(ai_response), "call 911")

(***************************************************************************)
(* State                                                                   *)
(*                                                                         *)
(* The session is Flask's cookie session (app.secret_key, line 26): the    *)
(* browser holds it, sends it with every request, and replaces it by the   *)
(* one a response carries.  A handler works on the copy its request        *)
(* brought; the server runs handlers in threads (app.run, line 559), so a  *)
(* request can be sent and answered while another one is still waiting on  *)
(* a collaborator.  GET /api/history (lines 523-527) and GET /health       *)
(* (lines 540-549) write nothing, neither to the session nor to the        *)
(* handles, and are no steps of the model.                                 *)
(***************************************************************************)
VARIABLES
  qdrant_client,   \* TRUE when the global handle is set (not None)
  openai_client,   \* TRUE when the global handle is set (not None)
  chat_history,    \* session['chat_history'] of the cookie the browser holds
  tone,            \* session['tone'] of that cookie, NoTone when the key is absent
  has_chat_history,\* 'chat_history' in session, of that cookie
  inflight,        \* the requests sent and not answered yet
  request,         \* the last chat or clear request answered
  status,          \* the HTTP status of its response
  body,            \* the JSON body of its response
  calls,           \* the collaborator calls made while serving it
  prior,           \* the session that request brought: its length and tone
  stored,          \* the session its handler ended with
  formatted,       \* a text under format_response (SpecFormat only)
  filtered         \* a message under generate_response's fixed rules
                   \* (SpecSafety only)

vars == <<qdrant_client, openai_client, chat_history, tone, has_chat_history,
          inflight, request, status, body, calls, prior, stored,
          formatted, filtered>>

\* A session without exchanges and without tone
NoSession == [chat_history |-> <<>>, tone |-> NoTone]

\* No message is being filtered
NoFilter == [message |-> "", chat_length |-> 0, reply |-> "", done |-> FALSE]

\* No text is being formatted
NoFormat == [input |-> "", output |-> "", runs |-> 0]

\* No collaborator call at all
NoCalls ==
  [init |-> 0, init_ok |-> FALSE, retrieval |-> FALSE, retrieval_failed |-> FALSE, context |-> "",
   generate |-> FALSE, user_message |-> "", tone |-> NoTone,
   chat_history |-> "", chat_length |-> 0,
   llm |-> FALSE, llm_failed |-> FALSE, system_prompt |-> "", llm_user |-> ""]

(***************************************************************************)
(* POST /api/chat (src/app.py:363-521)                                     *)
(*                                                                         *)
(* A collaborator's answer is drawn where the handler calls it.            *)
(***************************************************************************)
\* Which requests and collaborator answers a turn on this transcript may
\* draw (see MaxFree)
FreeTurn(history) == Len(history) < MaxFree \/ Len(history) >= MessageLimit

DrawnRequests == IF FreeTurn(chat_history) THEN Requests ELSE {Filler}
DrawnRetrievals(history) == IF FreeTurn(history) THEN Retrievals ELSE {DefaultRetrieval}
DrawnCompletions(history) == IF FreeTurn(history) THEN Completions ELSE {DefaultCompletion}

\* What a handler hands back: the response, and the session it worked on,
\* which the response carries to the browser when the handler wrote to it
\* (session.modified)
Respond(code, json, made, history, session_tone, modified) ==
  [status |-> code, body |-> json, calls |-> made,
   chat_history |-> history, tone |-> session_tone, modified |-> modified]

\* lines 392-514: the turn proper, the services being available, on the
\* session (history, session_tone) the request brought
Turn(user_message, made, history, session_tone, retrieval, completion) ==
  LET history_text  == HistoryText(history)                         \* 397
      selected_tone == StoreTone(session_tone, user_message)        \* 400-404, 422
      effective     == EffectiveMessage(user_message, history)      \* 408-419
      is_greeting   == ChatIsGreetingOf[effective]                   \* 426
      meaningful    == IsMeaningfulQueryOf[effective]                \* 430
      chat_length   == Len(history) + 1                             \* 474
      ask_tone      == selected_tone = NoTone /\ ~is_greeting /\ meaningful   \* 433
      ask_more      == selected_tone = NoTone /\ ~is_greeting /\ ~meaningful  \* 454
      context       == get_relevant_context(TRUE, retrieval)        \* 393
      turn_calls    == [made EXCEPT !.retrieval = TRUE,
                                    !.retrieval_failed = ~retrieval.ok,
                                    !.context = context]
      gen           == generate_response(effective, context, history_text,
                                         selected_tone, chat_length, completion)
  IN  IF ask_tone
      THEN \* 433-451
           Respond(200,
                   [response |-> ToneQuestion,
                    quick_replies |-> QuickReplies(TRUE),
                    success |-> TRUE],
                   turn_calls,
                   AppendExchange(history,
                                  StoredUserText(user_message, effective),
                                  ToneQuestion),
                   selected_tone, TRUE)
      ELSE IF ask_more
      THEN \* 454-471
           Respond(200,
                   [response |-> ClarifyQuestion,
                    quick_replies |-> QuickReplies(FALSE), success |-> TRUE],
                   turn_calls,
                   AppendExchange(history,
                                  StoredUserText(user_message, effective),
                                  ClarifyQuestion),
                   selected_tone, TRUE)
      ELSE \* 474-514; quick_replies stays [] on every path
           Respond(200,
                   [response |-> gen.reply,
                    quick_replies |-> QuickReplies(FALSE), success |-> TRUE],
                   [turn_calls EXCEPT
                      !.generate = TRUE, !.user_message = effective,
                      !.tone = selected_tone, !.chat_history = history_text,
                      !.chat_length = chat_length, !.llm = gen.llm,
                      !.llm_failed = gen.llm /\ ~completion.ok,
                      !.system_prompt = gen.system_prompt,
                      !.llm_user = gen.llm_user],
                   AppendExchange(history,
                                  StoredUserText(user_message, effective),
                                  gen.reply),
                   StoreTone(selected_tone, user_message), TRUE)

\* lines 379-390: after the service check, the refusal when the services are
\* not available, the message limit, or the turn
Serve(user_message, ok, made, history, session_tone, retrieval, completion) ==
  IF ~ok
  THEN \* 379-380
       Respond(503,
               [error |-> "Services unavailable. Please try again later.",
                success |-> FALSE],
               made, history, session_tone, FALSE)
  ELSE IF LimitReached(history)
  THEN \* 383-390
       Respond(200,
               [response |-> LimitText, limit_reached |-> TRUE,
                quick_replies |-> <<>>, success |-> TRUE],
               made, history, session_tone, FALSE)
  ELSE Turn(user_message, made, history, session_tone, retrieval, completion)

\* The ways the handler can end once the service check is behind it, one for
\* every answer the collaborators may give
Outcomes(user_message, ok, made, history, session_tone) ==
  {Serve(user_message, ok, made, history, session_tone, retrieval, completion) :
     retrieval \in DrawnRetrievals(history),
     completion \in DrawnCompletions(history)}

\* lines 366-372 and 516-521: what the handler answers before it looks at the
\* services, if anything
Rejects(data) == ~data.json \/ IsEmptyMessage(StripOf[data.message])

Rejection(data, history, session_tone) ==
  IF ~data.json
  THEN \* 516-521: the exception handler
       Respond(500,
               [error |-> "An error occurred while processing your message.",
                success |-> FALSE],
               NoCalls, history, session_tone, FALSE)
  ELSE \* 371-372
       Respond(400, [error |-> "Message cannot be empty"],
               NoCalls, history, session_tone, FALSE)

(***************************************************************************)
(* Init: the module was imported and initialize_services() ran once (line  *)
(* 352).  The session is a cookie that the browser holds, signed with a    *)
(* fixed key (line 26): it outlives the process that wrote it, so the      *)
(* browser may come to a new process with the session an earlier one left. *)
(***************************************************************************)
\* The sessions the browser may hold at the start: the one chat() leaves
\* after each script, a first message followed by Filler messages, sent one
\* at a time on a new session to a process whose services were available
InitFirstMessages == {"ok", "Casual"}

InitScripts ==
  {<<>>} \cup {[i \in 1..n |-> IF i = 1 THEN m ELSE Filler.message] :
                m \in InitFirstMessages, n \in 1..MessageLimit}

RECURSIVE SessionAfter(_)
SessionAfter(script) ==
  IF script = <<>> THEN NoSession
  ELSE LET before == SessionAfter(SubSeq(script, 1, Len(script) - 1))
           response == Serve(script[Len(script)], TRUE, NoCalls,
                             before.chat_history, before.tone,
                             DefaultRetrieval, DefaultCompletion)
       IN  [chat_history |-> response.chat_history, tone |-> response.tone]

InitSessions == {SessionAfter(script) : script \in InitScripts}

Init ==
  /\ \E outcome \in InitOutcomes :
       LET svc == initialize_services(FALSE, FALSE, outcome)
       IN  /\ qdrant_client = svc.qdrant_client
           /\ openai_client = svc.openai_client
  /\ \E held \in InitSessions :
       /\ chat_history = held.chat_history
       /\ tone = held.tone
       /\ has_chat_history = (held.chat_history # <<>>)
  /\ inflight = {}
  /\ request = [op |-> "start", data |-> Malformed]
  /\ status = 0
  /\ body = [success |-> TRUE]
  /\ calls = NoCalls
  /\ prior = [count |-> 0, tone |-> NoTone]
  /\ stored = NoSession
  /\ formatted = NoFormat
  /\ filtered = NoFilter

\* A request on its way: what it asks for ("chat", "clear" or "index"), the
\* body and the session it brought, the place its handler has reached and the
\* response once it is written.  The places: "check", before the service check
\* of line 377; "init", inside initialize_services before line 52 has
\* assigned qdrant_client; "openai", after that assignment and before line 59
\* has assigned openai_client; "done", the response is written.
Flight(id, op, data, history, session_tone, pc, response) ==
  [id |-> id, op |-> op, data |-> data,
   chat_history |-> history, tone |-> session_tone,
   pc |-> pc, response |-> response]

NoResponse == Respond(0, [success |-> TRUE], NoCalls, <<>>, NoTone, FALSE)

\* The browser may send a request while another is unanswered (see
\* MaxInFlight and MaxOverlap)
CanSend ==
  \/ inflight = {}
  \/ /\ Cardinality(inflight) < MaxInFlight
     /\ Len(chat_history) < MaxOverlap
     /\ \A r \in inflight : Len(r.chat_history) < MaxOverlap

CanClear ==
  \/ inflight = {}
  \/ /\ Cardinality(inflight) < MaxInFlight
     /\ Len(chat_history) <= MaxOverlap
     /\ \A r \in inflight : Len(r.chat_history) <= MaxOverlap

FreeId == CHOOSE i \in 1..MaxInFlight :
            /\ \A r \in inflight : r.id # i
            /\ \A j \in 1..(i - 1) : \E r \in inflight : r.id = j

\* The browser sends a chat request with the session it holds, and the
\* handler runs up to its first wait that another request can change the
\* outcome of.  The handles are never unset once set (lines 52-62 are their
\* only assignments), so a handler that finds both set reads nothing more
\* that another request writes: what it will answer is settled here, and what
\* remains is when the answer arrives.
Send ==
  /\ CanSend
  /\ \E data \in DrawnRequests :
       LET user_message == StripOf[data.message]                     \* 368
       IN  IF Rejects(data)
           THEN inflight' = inflight \cup
                  {Flight(FreeId, "chat", data, chat_history, tone, "done",
                          Rejection(data, chat_history, tone))}
           ELSE IF qdrant_client /\ openai_client
           THEN \E response \in Outcomes(user_message, TRUE, NoCalls,
                                         chat_history, tone) :
                  inflight' = inflight \cup
                    {Flight(FreeId, "chat", data, chat_history, tone, "done",
                            response)}
           ELSE inflight' = inflight \cup
                  {Flight(FreeId, "chat", data, chat_history, tone, "check",
                          NoResponse)}
  /\ UNCHANGED <<qdrant_client, openai_client, chat_history, tone,
                 has_chat_history, request, status, body, calls, prior,
                 stored, formatted, filtered>>

\* line 377: the service check of a handler that was sent while a handle was
\* unset; another request may have set one or both since
Check ==
  \E r \in inflight :
    /\ r.pc = "check"
    /\ IF qdrant_client /\ openai_client
       THEN \E response \in Outcomes(StripOf[r.data.message], TRUE, NoCalls,
                                     r.chat_history, r.tone) :
              inflight' = (inflight \ {r}) \cup
                            {[r EXCEPT !.pc = "done", !.response = response]}
       ELSE inflight' = (inflight \ {r}) \cup {[r EXCEPT !.pc = "init"]}
    /\ UNCHANGED <<qdrant_client, openai_client, chat_history, tone,
                   has_chat_history, request, status, body, calls, prior,
                   stored, formatted, filtered>>

\* The calls of a handler that has been through initialize_services
Reinitialized(ok) == [NoCalls EXCEPT !.init = 1, !.init_ok = ok]

\* lines 378-380 with lines 47-56: the handler calls initialize_services,
\* which calls QdrantClient().  Either the constructor raises, nothing is
\* assigned and initialize_services returns; or line 52 assigns qdrant_client
\* and the handler is inside OpenAI(), openai_client being what it was: that
\* far initialize_services has done what it does when OpenAI() raises.
ReinitQdrant ==
  \E r \in inflight, raised \in BOOLEAN :
    LET svc == initialize_services(qdrant_client, openai_client,
                                   IF raised THEN "qdrant" ELSE "openai")
    IN
    /\ r.pc = "init"
    /\ qdrant_client' = svc.qdrant_client
    /\ openai_client' = svc.openai_client
    /\ IF raised
       THEN \E response \in Outcomes(StripOf[r.data.message], svc.ok,
                                     Reinitialized(svc.ok),
                                     r.chat_history, r.tone) :
              inflight' = (inflight \ {r}) \cup
                            {[r EXCEPT !.pc = "done", !.response = response]}
       ELSE inflight' = (inflight \ {r}) \cup {[r EXCEPT !.pc = "openai"]}
    /\ UNCHANGED <<chat_history, tone, has_chat_history,
                   request, status, body, calls, prior, stored,
                   formatted, filtered>>

\* lines 59-69 with lines 378-380: OpenAI() returns and line 59 assigns
\* openai_client, or it raises; initialize_services returns, and the handler
\* goes on
ReinitOpenAI ==
  \E r \in inflight, outcome \in InitOutcomes \ {"qdrant"} :
    LET svc == initialize_services(qdrant_client, openai_client, outcome)
    IN
    /\ r.pc = "openai"
    /\ qdrant_client' = svc.qdrant_client
    /\ openai_client' = svc.openai_client
    /\ \E response \in Outcomes(StripOf[r.data.message], svc.ok,
                                Reinitialized(svc.ok),
                                r.chat_history, r.tone) :
         inflight' = (inflight \ {r}) \cup
                       {[r EXCEPT !.pc = "done", !.response = response]}
    /\ UNCHANGED <<chat_history, tone, has_chat_history,
                   request, status, body, calls, prior, stored,
                   formatted, filtered>>

(***************************************************************************)
(* POST /api/clear (src/app.py:529-537)                                    *)
(*                                                                         *)
(* The browser sends a clear request with the session it holds.  The       *)
(* handler waits on nothing and what it writes does not depend on that     *)
(* session: its response, which carries the emptied session, is written    *)
(* here, and arrives later.                                                *)
(***************************************************************************)
Clear ==
  /\ CanClear
  /\ inflight' = inflight \cup
       {Flight(FreeId, "clear", Malformed, chat_history, tone, "done",
               Respond(200,
                       [success |-> TRUE, message |-> "Chat history cleared"],
                       NoCalls, <<>>, NoTone, TRUE))}
  /\ UNCHANGED <<qdrant_client, openai_client, chat_history, tone,
                 has_chat_history, request, status, body, calls, prior,
                 stored, formatted, filtered>>

(***************************************************************************)
(* GET / (src/app.py:355-361)                                              *)
(*                                                                         *)
(* The browser asks for the page with the session it holds.  The handler   *)
(* writes an empty transcript to a session that has none (lines 358-359),  *)
(* and then the response carries the session; the page itself is not       *)
(* modelled.                                                               *)
(***************************************************************************)
Index ==
  /\ CanSend
  /\ inflight' = inflight \cup
       {Flight(FreeId, "index", Malformed, chat_history, tone, "done",
               Respond(200, [success |-> TRUE], NoCalls,
                       IF has_chat_history THEN chat_history ELSE <<>>,
                       tone, ~has_chat_history))}
  /\ UNCHANGED <<qdrant_client, openai_client, chat_history, tone,
                 has_chat_history, request, status, body, calls, prior,
                 stored, formatted, filtered>>

(***************************************************************************)
(* A response reaches the browser; the session it carries, if any,         *)
(* replaces the one the browser holds.  The response to a chat or clear    *)
(* request becomes the last one answered.                                  *)
(***************************************************************************)
Deliver ==
  \E r \in inflight :
    /\ r.pc = "done"
    /\ inflight' = inflight \ {r}
    /\ chat_history' = IF r.response.modified
                       THEN r.response.chat_history ELSE chat_history
    /\ tone' = IF r.response.modified THEN r.response.tone ELSE tone
    /\ has_chat_history' = (has_chat_history \/ r.response.modified)
    /\ IF r.op = "index"
       THEN UNCHANGED <<request, prior, status, body, calls, stored>>
       ELSE /\ request' = [op |-> r.op, data |-> r.data]
            /\ prior' = [count |-> Len(r.chat_history), tone |-> r.tone]
            /\ status' = r.response.status
            /\ body' = r.response.body
            /\ calls' = r.response.calls
            /\ stored' = [chat_history |-> r.response.chat_history,
                          tone |-> r.response.tone]
    /\ UNCHANGED <<qdrant_client, openai_client, formatted, filtered>>

Next ==
  Send \/ Check \/ ReinitQdrant \/ ReinitOpenAI \/ Clear \/ Index \/ Deliver

Spec == Init /\ [][Next]_vars

(***************************************************************************)
(* format_response on its own: a text is drawn, then the transform is      *)
(* applied to its own output.                                              *)
(***************************************************************************)
MaxFragments == 4
MaxRuns == 2

Fragments == {"**", "x", Bullet \o " ", "1. ", "<br>", " ", "\f", ""}

RECURSIVE TextsOf(_)
TextsOf(n) ==
  IF n = 0 THEN {""}
  ELSE LET shorter == TextsOf(n - 1)
       IN  shorter \cup {t \o f : t \in shorter, f \in Fragments}

InitFormat ==
  /\ qdrant_client = TRUE
  /\ openai_client = TRUE
  /\ chat_history = <<>>
  /\ tone = NoTone
  /\ has_chat_history = FALSE
  /\ inflight = {}
  /\ request = [op |-> "start", data |-> Malformed]
  /\ status = 0
  /\ body = [success |-> TRUE]
  /\ calls = NoCalls
  /\ prior = [count |-> 0, tone |-> NoTone]
  /\ stored = NoSession
  /\ \E t \in TextsOf(MaxFragments) :
       formatted = [input |-> t, output |-> t, runs |-> 0]
  /\ filtered = NoFilter

Format ==
  /\ formatted.runs < MaxRuns
  /\ formatted' = [input  |-> formatted.output,
                   output |-> format_response(formatted.output),
                   runs   |-> formatted.runs + 1]
  /\ UNCHANGED <<qdrant_client, openai_client, chat_history, tone,
                 has_chat_history, inflight, request, status, body, calls,
                 prior, stored, filtered>>

SpecFormat == InitFormat /\ [][Format]_vars

(***************************************************************************)
(* The fixed rules of generate_response on their own (src/app.py:110-166): *)
(* a message is drawn, then the rules are applied to it.                   *)
(***************************************************************************)
MaxWords == 3

\* A violence keyword in capitals, "beat", a physical indicator, a workload
\* term, a harm keyword, a health keyword and a neutral word
SafetyFragments == {"HIT", "beat", "hurt me", "deadline", "kill", "sick", "you"}

RECURSIVE SafetyTextsOf(_)
SafetyTextsOf(n) ==
  IF n = 1 THEN SafetyFragments
  ELSE LET shorter == SafetyTextsOf(n - 1)
       IN  shorter \cup {t \o " " \o f : t \in shorter, f \in SafetyFragments}

InitSafety ==
  /\ qdrant_client = TRUE
  /\ openai_client = TRUE
  /\ chat_history = <<>>
  /\ tone = NoTone
  /\ has_chat_history = FALSE
  /\ inflight = {}
  /\ request = [op |-> "start", data |-> Malformed]
  /\ status = 0
  /\ body = [success |-> TRUE]
  /\ calls = NoCalls
  /\ prior = [count |-> 0, tone |-> NoTone]
  /\ stored = NoSession
  /\ formatted = NoFormat
  /\ \E m \in SafetyTextsOf(MaxWords), n \in 1..2 :
       filtered = [message |-> m, chat_length |-> n, reply |-> "", done |-> FALSE]

Filter ==
  /\ ~filtered.done
  /\ filtered' = [filtered EXCEPT
                    !.reply = CannedReply(filtered.message, filtered.chat_length),
                    !.done = TRUE]
  /\ UNCHANGED <<qdrant_client, openai_client, chat_history, tone,
                 has_chat_history, inflight, request, status, body, calls,
                 prior, stored, formatted>>

SpecSafety == InitSafety /\ [][Filter]_vars

(***************************************************************************)
(* Properties                                                              *)
(***************************************************************************)
\* The last request answered was a chat request
IsChat == request.op = "chat"

\* The last request was a chat request that was served as a turn or answered
\* with the limit message (not rejected with 400, 500 or 503)
Served == IsChat /\ status = 200

\* The last response is that of a turn: a success without limit_reached
TurnDone == Served /\ "limit_reached" \notin DOMAIN body

\* The trimmed message of the last request
Msg == StripOf[request.data.message]

WordCountOf == [m \in UserTexts |-> WordCount(m)]
IsGreetingWordOf == [m \in UserTexts |-> Strip(Lower(m)) \in ChatGreetingWords]
SafetyReplyOf == [m \in UserTexts |-> SafetyReply(m)]

\* The response body carrying the limit message
IsLimitBody(b) ==
  /\ DOMAIN b = {"response", "limit_reached", "quick_replies", "success"}
  /\ b.response = LimitText
  /\ b.limit_reached = TRUE

\* The transcript as the last request found it
Before == SubSeq(stored.chat_history, 1, prior.count)

\* A substantive user text: no greeting as the chat handler classifies it and
\* no tone label in any case
SubstantiveOf ==
  [m \in UserTexts |-> ~IsGreetingWordOf[m] /\ Lower(m) \notin {"professional", "casual"}]

SubstantiveIndexes(history) ==
  {i \in 1..Len(history) : SubstantiveOf[history[i].user]}

LastSubstantive(history) ==
  history[CHOOSE i \in SubstantiveIndexes(history) :
            \A j \in SubstantiveIndexes(history) : j <= i].user

IsPrefix(a, b) == Len(a) <= Len(b) /\ SubSeq(b, 1, Len(a)) = a

\* The step in which the response to a chat request reaches the browser
Answered == \E r \in inflight : r.op = "chat" /\ inflight' = inflight \ {r}

\* That response is the one of a turn: a success without limit_reached
TurnAnswered ==
  Answered /\ status' = 200 /\ "limit_reached" \notin DOMAIN body'

\* C1, as stated: once the transcript holds 10 exchanges, every subsequent
\* chat request returns the limit message with limit_reached = true, and no
\* text-generation call is made.  The transcript is the one the request
\* brings.
C1_EveryRequestGetsLimitMessage ==
  (IsChat /\ prior.count >= MessageLimit) =>
    (status = 200 /\ IsLimitBody(body) /\ ~calls.llm)

\* C1, amended: every chat request that brings a transcript of 10 exchanges
\* and carries a non-empty message in a JSON body returns the limit message
\* with limit_reached = true, unless its handler finds a service handle unset
\* and the re-initialization fails, and then it returns 503; no chat request
\* that brings such a transcript calls generate_response or the
\* text-generation collaborator.
C1_LimitMessage ==
  (IsChat /\ prior.count >= MessageLimit) =>
    /\ ~calls.generate /\ ~calls.llm
    /\ (request.data.json /\ Msg # "") =>
         IF calls.init = 1 /\ ~calls.init_ok
         THEN status = 503
         ELSE status = 200 /\ IsLimitBody(body)

\* A tone label sent at the limit, to a process that had a handle unset and
\* set it in this request, was answered with the limit message
C1_Witness ==
  /\ IsChat /\ prior.count = MessageLimit /\ Msg = "Casual"
  /\ calls.init = 1 /\ calls.init_ok
  /\ IsLimitBody(body) /\ ~calls.llm

\* C2: every served chat turn below the message limit whose message matches a
\* safety keyword set replies with the corresponding fixed text and returns
\* no quick replies.
C2_SafetyTextAlways ==
  (Served /\ prior.count < MessageLimit /\ SafetyReplyOf[Msg] # "") =>
    (body.response = SafetyReplyOf[Msg] /\ body.quick_replies = <<>>)

\* C3, as stated: once the tone of the session is set, it has the same value
\* after every later chat turn, whatever the message: the session a turn
\* stores has the tone of the session its request brought.
C3_ToneNeverChanges ==
  (TurnDone /\ prior.tone # NoTone) => stored.tone = prior.tone

\* C3, amended: the session a chat turn stores has the tone of the session its
\* request brought, unless the trimmed message is exactly a tone label, and
\* then it has that label; a chat request that is not served as a turn (the
\* limit message, 400, 500, 503) leaves the tone of the session alone.
C3_ToneKept ==
  [][Answered =>
       IF TurnAnswered
       THEN prior'.tone # NoTone =>
              tone' = IF Msg' \in ToneLabels THEN Msg' ELSE prior'.tone
       ELSE tone' = tone]_vars

\* A turn with a safety message was served under a tone set earlier
C3_Witness ==
  /\ Served /\ prior.tone = "Casual" /\ Msg = "he hit me"
  /\ prior.count < MessageLimit /\ stored.tone = "Casual"

\* C4: a clear request leaves the transcript empty and the tone unset, from
\* any state, and the next substantive message (3 words or more, no greeting)
\* that is answered after it is answered with the tone question.
C4_ClearResets ==
  [][/\ request'.op = "clear" => (chat_history' = <<>> /\ tone' = NoTone)
     /\ (/\ request.op = "clear" /\ request'.op = "chat" /\ status' = 200
         /\ WordCountOf[Msg'] >= 3 /\ ~IsGreetingWordOf[Msg'])
        => /\ body'.response = ToneQuestion
           /\ body'.quick_replies = <<"Professional", "Casual">>
           /\ ~calls'.llm]_vars

\* C5: when the transcript is empty and the message is a word the chat handler
\* classifies as a greeting, the reply is the fixed greeting, there are no
\* quick replies and the text-generation collaborator is not called.
C5_GreetingFirstTurn ==
  (Served /\ prior.count = 0 /\ IsGreetingWordOf[Msg]) =>
    (body.response = GreetingText /\ body.quick_replies = <<>> /\ ~calls.llm)

\* C6: in a turn below the limit whose message is exactly a tone label, with a
\* substantive user message in the transcript, generate_response is called
\* with the most recent substantive prior user message as its query, never the
\* label, and with the label just sent as its tone.
C6_QueryIsLastSubstantive ==
  (/\ Served /\ prior.count < MessageLimit /\ Msg \in ToneLabels
   /\ SubstantiveIndexes(Before) # {})
  => /\ calls.generate
     /\ calls.user_message = LastSubstantive(Before)
     /\ calls.user_message \notin ToneLabels
     /\ calls.tone = Msg

\* C7: format_response is idempotent: applied to its own output it returns
\* that output.
C7_FormatIdempotent == formatted.runs >= 2 => formatted.output = formatted.input

\* C8: a chat turn leaves the exchanges stored in the session unchanged and in
\* order: the transcript before the turn's response is a prefix of the
\* transcript after it.
C8_PrefixKept ==
  [][request'.op = "chat" => IsPrefix(chat_history, chat_history')]_vars

\* C9, as stated: when no tone is set and the message is no greeting and has 3
\* words or more, the served turn replies with the tone question and the two
\* quick replies, calls no text generation and leaves the tone unset.
C9_ToneQuestionWheneverUnset ==
  (Served /\ prior.tone = NoTone /\ ~IsGreetingWordOf[Msg] /\ WordCountOf[Msg] >= 3) =>
    /\ body.response = ToneQuestion
    /\ body.quick_replies = <<"Professional", "Casual">>
    /\ ~calls.llm
    /\ stored.tone = NoTone

\* C9, amended: the same, when the transcript holds fewer than 10 exchanges.
C9_ToneQuestion ==
  (/\ Served /\ prior.count < MessageLimit /\ prior.tone = NoTone
   /\ ~IsGreetingWordOf[Msg] /\ WordCountOf[Msg] >= 3) =>
    /\ body.response = ToneQuestion
    /\ body.quick_replies = <<"Professional", "Casual">>
    /\ ~calls.generate /\ ~calls.llm
    /\ stored.tone = NoTone

\* A three-word message was answered with the tone question
C9_Witness ==
  /\ Served /\ prior.tone = NoTone /\ Msg = "he hit me"
  /\ body.response = ToneQuestion /\ stored.tone = NoTone

\* C10, as stated: when no tone is set and the message has fewer than 3 words
\* and is neither a greeting nor a tone label, the served turn replies with
\* the clarifying question, without quick replies or text generation.
C10_ClarifyWheneverUnset ==
  (/\ Served /\ prior.tone = NoTone /\ WordCountOf[Msg] < 3
   /\ ~IsGreetingWordOf[Msg] /\ Msg \notin ToneLabels) =>
    /\ body.response = ClarifyQuestion
    /\ body.quick_replies = <<>>
    /\ ~calls.llm

\* C10, amended: the same, when the transcript holds fewer than 10 exchanges.
C10_Clarify ==
  (/\ Served /\ prior.count < MessageLimit /\ prior.tone = NoTone
   /\ WordCountOf[Msg] < 3 /\ ~IsGreetingWordOf[Msg] /\ Msg \notin ToneLabels) =>
    /\ body.response = ClarifyQuestion
    /\ body.quick_replies = <<>>
    /\ ~calls.generate /\ ~calls.llm

\* A two-word message with a harm keyword was answered with the clarifying
\* question
C10_Witness ==
  /\ Served /\ prior.tone = NoTone /\ Msg = "kill him"
  /\ body.response = ClarifyQuestion /\ body.quick_replies = <<>>

\* The quick replies of the last response, none when it carries no such list
Replies == IF "quick_replies" \in DOMAIN body THEN body.quick_replies ELSE <<>>

\* The last exchange of the session the last request answered ended with
LastExchange == stored.chat_history[Len(stored.chat_history)]

IsBlankOf == [m \in Messages \cup {""} |-> Strip(m) = ""]

\* C11: a chat turn that starts with the tone set, or that sets it, returns an
\* empty quick-reply list; a non-empty quick-reply list is returned only by a
\* turn that ends with the tone unset.
C11_QuickRepliesOnlyWithoutTone ==
  IsChat =>
    /\ (prior.tone # NoTone \/ stored.tone # NoTone) => Replies = <<>>
    /\ Replies # <<>> => stored.tone = NoTone

\* A tone label set the tone and the turn returned no quick replies
C11_Witness ==
  /\ Served /\ prior.tone = NoTone /\ prior.count < MessageLimit
  /\ Msg = "Casual" /\ stored.tone = "Casual" /\ calls.generate
  /\ body.quick_replies = <<>>

\* C12: a chat request whose message is empty or only whitespace is rejected
\* with status 400 before any external call (no re-initialization, retrieval
\* or generation), and leaves the transcript, the tone and the handles as
\* they were.
C12_BlankRejected ==
  [][(/\ Answered /\ request'.data.json
      /\ IsBlankOf[request'.data.message])
     => /\ status' = 400
        /\ "error" \in DOMAIN body'
        /\ calls' = NoCalls
        /\ chat_history' = chat_history /\ tone' = tone
        /\ qdrant_client' = qdrant_client /\ openai_client' = openai_client]_vars

\* A blank message was rejected while a handle was unset, and no
\* re-initialization was attempted
C12_Witness ==
  /\ IsChat /\ request.data.json /\ request.data.message = " \f"
  /\ status = 400 /\ ~openai_client /\ calls.init = 0

\* C13: a chat request with a non-empty message whose handler finds a handle
\* unset makes exactly one re-initialization attempt, and a handler that
\* makes none found both set; when the attempt fails the response is 503 with
\* success false, nothing else is called and the transcript and tone are
\* unchanged; when it succeeds both handles are set and the request is served
\* as a turn.
C13_ReinitOnce ==
  [][(/\ Answered /\ request'.data.json
      /\ ~IsBlankOf[request'.data.message])
     => /\ calls'.init \in {0, 1}
        /\ calls'.init = 0 => (qdrant_client' /\ openai_client' /\ status' = 200)
        /\ calls'.init = 1 =>
             IF calls'.init_ok
             THEN /\ qdrant_client' /\ openai_client'
                  /\ status' = 200 /\ body'.success = TRUE
                  /\ prior'.count < MessageLimit =>
                       /\ calls'.retrieval
                       /\ Len(chat_history') = prior'.count + 1
             ELSE /\ status' = 503 /\ body'.success = FALSE
                  /\ "response" \notin DOMAIN body'
                  /\ ~calls'.retrieval /\ ~calls'.generate
                  /\ chat_history' = chat_history /\ tone' = tone]_vars

\* A request found a handle unset, the attempt failed and it got 503
C13_Witness ==
  /\ IsChat /\ Msg = "he hit me" /\ calls.init = 1 /\ ~calls.init_ok
  /\ status = 503
  /\ qdrant_client /\ ~openai_client /\ stored.chat_history = <<>>

\* C14: a failure of the retrieval collaborator yields the sentinel context
\* and the turn goes on to a success response; a failure of the generation
\* collaborator yields the apology text as the reply, with success true.
C14_CollaboratorFailureDegrades ==
  IsChat =>
    /\ calls.retrieval_failed =>
         /\ calls.context = NoContextText
         /\ status = 200 /\ body.success = TRUE
         /\ Len(stored.chat_history) = prior.count + 1
    /\ calls.llm_failed =>
         /\ status = 200 /\ body.success = TRUE
         /\ body.response = ApologyText
         /\ LastExchange.ai = ApologyText

\* Both collaborators failed in one turn
C14_Witness ==
  /\ IsChat /\ calls.retrieval_failed /\ calls.llm_failed
  /\ status = 200 /\ body.response = ApologyText

\* C15: whenever the text-generation collaborator is called, its prompt
\* embeds the context retrieved for the turn, the window of prior exchanges,
\* the tone directive of the session tone and the effective user message.
C15_PromptEmbedsAll ==
  (IsChat /\ calls.llm) =>
    /\ Contains(calls.system_prompt, calls.context)
    /\ Contains(calls.system_prompt, calls.chat_history)
    /\ Contains(calls.system_prompt, calls.user_message)
    /\ calls.tone \in ToneLabels => Contains(calls.system_prompt, "TONE: " \o calls.tone)

\* C16: the text-generation collaborator is called only in a turn whose
\* session tone is Professional or Casual.
C16_NoGenerationWithoutTone ==
  (IsChat /\ calls.llm) => stored.tone \in ToneLabels

\* C17: in a turn whose effective query (the message, or the prior message
\* resolved after a tone label) matches a safety trigger, the text-generation
\* collaborator is not called.
C17_NoGenerationOnSafetyQuery ==
  (/\ IsChat
   /\ \/ SafetyReplyOf[Msg] # ""
      \/ calls.generate /\ SafetyReplyOf[calls.user_message] # "")
  => ~calls.llm

\* A tone label resolved to a prior safety message and got the fixed text
C17_Witness ==
  /\ Served /\ Msg = "Professional" /\ calls.generate
  /\ calls.user_message = "kill him" /\ ~calls.llm
  /\ body.response = CrisisText

\* C18: a chat request that brings a transcript of 10 exchanges leaves the
\* transcript and the tone of the session unchanged, whatever the message.
C18_LimitTurnChangesNothing ==
  [][(Answered /\ prior'.count >= MessageLimit)
     => (chat_history' = chat_history /\ tone' = tone)]_vars

\* The other tone label was sent at the limit and the tone stayed
C18_Witness ==
  /\ IsChat /\ prior.count = MessageLimit /\ prior.tone = "Casual"
  /\ Msg = "Professional" /\ stored.tone = "Casual"
  /\ Len(stored.chat_history) = MessageLimit

\* C19: the transcript never holds more than 10 exchanges, and every chat
\* turn that returns success without limit_reached appends exactly one.
C19_AtMostTenOnePerTurn ==
  /\ Len(chat_history) <= MessageLimit
  /\ Len(stored.chat_history) <= MessageLimit
  /\ TurnDone => Len(stored.chat_history) = prior.count + 1

\* A turn appended the tenth exchange
C19_Witness ==
  /\ TurnDone /\ prior.count = MessageLimit - 1
  /\ Len(stored.chat_history) = MessageLimit

\* C20: the exchange a turn appends records the trimmed original message as
\* its user text and the turn's reply as its bot text; after a tone label the
\* user text is the label and the bot text the reply to the resolved message.
C20_StoresOriginalMessage ==
  TurnDone =>
    /\ Len(stored.chat_history) = prior.count + 1
    /\ LastExchange.user = Msg
    /\ LastExchange.ai = body.response
    /\ (calls.generate /\ SafetyReplyOf[calls.user_message] # "")
         => LastExchange.ai = SafetyReplyOf[calls.user_message]

\* A label turn stored the label with the reply to the resolved message
C20_Witness ==
  /\ TurnDone /\ Msg = "Casual" /\ calls.user_message = "he hit me"
  /\ LastExchange.user = "Casual" /\ LastExchange.ai = ViolenceText

\* What the message under the fixed rules contains
FilteredLower == Lower(filtered.message)
HasViolenceKeyword == AnyIn(ViolenceKeywords, FilteredLower)
HasWorkloadTerm == AnyIn(WorkloadContext, FilteredLower)
HasHarmKeyword == AnyIn(HarmfulKeywords, FilteredLower)
HasHealthKeyword == AnyIn(HealthKeywords, FilteredLower)
HasPhysicalBeat ==
  Contains(FilteredLower, "beat") /\ AnyIn(PhysicalIndicators, FilteredLower)

\* C21, as stated: a violence keyword without a workload term gives the
\* violence text, whatever else the message contains; a violence keyword with
\* a workload term does not; otherwise a harm keyword gives the crisis text,
\* and otherwise a health keyword gives the health text.
C21_FixedOrder ==
  filtered.done =>
    IF HasViolenceKeyword /\ ~HasWorkloadTerm
    THEN filtered.reply = ViolenceText
    ELSE /\ HasViolenceKeyword => filtered.reply # ViolenceText
         /\ IF HasHarmKeyword THEN filtered.reply = CrisisText
            ELSE HasHealthKeyword => filtered.reply = HealthText

\* C21, amended: a message with no workload term that contains a violence
\* keyword, or "beat" together with a physical indicator, gets the violence
\* text, whatever else it contains; a message with a workload term never gets
\* it; otherwise a harm keyword gives the crisis text, otherwise a health
\* keyword gives the health text, and otherwise none of the three is given.
C21_FixedOrderWithBeat ==
  filtered.done =>
    IF ~HasWorkloadTerm /\ (HasViolenceKeyword \/ HasPhysicalBeat)
    THEN filtered.reply = ViolenceText
    ELSE IF HasHarmKeyword THEN filtered.reply = CrisisText
    ELSE IF HasHealthKeyword THEN filtered.reply = HealthText
    ELSE filtered.reply \notin {ViolenceText, CrisisText, HealthText}

\* A message with a violence keyword in capitals, a harm keyword and a health
\* keyword got the violence text
C21_Witness ==
  /\ filtered.done /\ filtered.message = "HIT kill sick"
  /\ filtered.reply = ViolenceText

TrimmedOf == [m \in Messages \cup {""} |-> Strip(m)]

\* C22: the tone of the session is always unset, Professional or Casual; it
\* goes from unset to a value only in a chat turn whose trimmed message is
\* exactly that value, and from a value to unset only through a clear.
C22_ToneValues ==
  [][/\ tone' \in {NoTone} \cup ToneLabels
     /\ (tone = NoTone /\ tone' # NoTone) =>
          /\ request'.op = "chat" /\ request'.data.json
          /\ TrimmedOf[request'.data.message] = tone'
     /\ (tone # NoTone /\ tone' = NoTone) => request'.op = "clear"]_vars

====
